---- MODULE Spec2Model ----
(***************************************************************************)
(* A model of the revel router (router.go): route definitions, the YAML    *)
(* routes parser with module imports, the path tree built from the routes, *)
(* forward lookup (Route), reverse lookup (Reverse) and Refresh.           *)
(*                                                                         *)
(* Go strings are sequences of one-character strings, so that prefix       *)
(* tests, splitting, joining and upper-casing are computed as the code     *)
(* computes them.                                                          *)
(***************************************************************************)
EXTENDS Integers, Sequences, FiniteSets, TLC

VARIABLES
    Routes,     \* Router.Routes: the route list (<<>> is a nil slice)
    Tree,       \* Router.Tree: the pathtree
    err,        \* what the last Refresh returned: "none", an error, or "panic"
    pc,         \* position of the Refresh in progress ("idle" when none)
    todo,       \* routes updateTree has still to add (while pc = "build")
    old,        \* the route list and tree at the start of the Refresh in progress
    out         \* result of the last Route or Reverse call

vars == <<Routes, Tree, err, pc, todo, old, out>>

----------------------------------------------------------------------------
(* Bounds of the model *)

\* longest routes document (number of entries) written to conf/routes.yml
MaxDocLen == 2

\* longest routes document refreshed from while lookups run concurrently
MaxConcDocLen == 1

\* longest routes document handed to parseRoutes directly
MaxParseDocLen == 2

----------------------------------------------------------------------------
(* Strings *)

RECURSIVE Concat(_)
Concat(ss) == IF ss = <<>> THEN <<>> ELSE Head(ss) \o Concat(Tail(ss))

HasPrefix(s, p) == Len(s) >= Len(p) /\ SubSeq(s, 1, Len(p)) = p

HasSuffix(s, p) == Len(s) >= Len(p) /\ SubSeq(s, Len(s) - Len(p) + 1, Len(s)) = p

\* s[1:] of a non-empty string
Rest(s) == SubSeq(s, 2, Len(s))

\* strings.Split(s, sep) for a one-character separator: always at least one part
RECURSIVE SplitFrom(_, _, _)
SplitFrom(s, sep, cur) ==
    IF s = <<>> THEN <<cur>>
    ELSE IF Head(s) = sep THEN <<cur>> \o SplitFrom(Tail(s), sep, <<>>)
    ELSE SplitFrom(Tail(s), sep, Append(cur, Head(s)))

Split(s, sep) == SplitFrom(s, sep, <<>>)

\* strings.Join(parts, sep)
RECURSIVE Join(_, _)
Join(parts, sep) ==
    IF parts = <<>> THEN <<>>
    ELSE IF Len(parts) = 1 THEN parts[1]
    ELSE parts[1] \o <<sep>> \o Join(Tail(parts), sep)

\* the upper-case letter of a lower-case letter the model uses
UpperChar(c) ==
    CASE c = "a" -> "A" [] c = "b" -> "B" [] c = "c" -> "C" [] c = "d" -> "D"
      [] c = "e" -> "E" [] c = "g" -> "G" [] c = "h" -> "H" [] c = "i" -> "I"
      [] c = "l" -> "L" [] c = "m" -> "M" [] c = "n" -> "N" [] c = "o" -> "O"
      [] c = "p" -> "P" [] c = "s" -> "S" [] c = "t" -> "T" [] c = "x" -> "X"
      [] c = "y" -> "Y" [] c = "z" -> "Z"
      [] OTHER -> c

\* strings.ToUpper
ToUpper(s) == [i \in 1..Len(s) |-> UpperChar(s[i])]

----------------------------------------------------------------------------
(* Route *)

GET == <<"G", "E", "T">>
HEAD == <<"H", "E", "A", "D">>
POST == <<"P", "O", "S", "T">>
STAR == <<"*">>
A404 == <<"4", "0", "4">>

treePath(method, path) ==
    LET m == IF method = STAR THEN <<":", "M", "E", "T", "H", "O", "D">> ELSE method
    IN  <<"/">> \o m \o path

NewRoute(method, path, action, routesPath, fixedArgs) ==
    LET r == [Method |-> ToUpper(method),
              Path |-> path,
              Action |-> action,
              FixedParams |-> fixedArgs,
              TreePath |-> treePath(ToUpper(method), path),
              ControllerName |-> <<>>,
              MethodName |-> <<>>,
              routesPath |-> routesPath,
              line |-> 0]
        actionSplit == Split(action, ".")
    IN  IF ~HasPrefix(r.Path, <<"/">>) THEN r
        ELSE IF Len(actionSplit) = 2
             THEN [r EXCEPT !.ControllerName = actionSplit[1],
                            !.MethodName = actionSplit[2]]
             ELSE r

----------------------------------------------------------------------------
(* Collaborators: the controller registry, the module registry and the     *)
(* files on disk.  A routes document, once unmarshalled, is a sequence of  *)
(* maps; a map is a function from its keys to strings (params: a sequence  *)
(* of strings), and a null entry is NilEntry.                              *)

NilEntry == [nil |-> TRUE]

IsNil(e) == "nil" \in DOMAIN e

Has(e, key) == key \in DOMAIN e

\* Controller.SetAction succeeds for the registered controller methods
RegisteredActions == {<<<<"C">>, <<"M">>>>, <<<<"C">>, <<"N">>>>}

SetAction(controller, method) ==
    IF <<controller, method>> \in RegisteredActions THEN "none"
    ELSE "revel/controller: failed to find controller"

RootPath == "conf/routes.yml"

\* ModuleByName: the active modules and their paths; "off" is not active
ModulePath == [m |-> "m", n |-> "n", bad |-> "bad"]

ModuleByName(moduleName) ==
    IF moduleName \in DOMAIN ModulePath
    THEN [Path |-> ModulePath[moduleName], found |-> TRUE]
    ELSE [Path |-> "", found |-> FALSE]

\* path.Join(module.Path, "conf", "routes.yml")
ModuleRoutesPath(modulePath) ==
    CASE modulePath = "m" -> "m/conf/routes.yml"
      [] modulePath = "n" -> "n/conf/routes.yml"
      [] modulePath = "bad" -> "bad/conf/routes.yml"

RouteEntry(method, path, action) == [method |-> method, path |-> path, action |-> action]

ImportEntry(name, prefix) == [import |-> name, prefix |-> prefix]

\* ioutil.ReadFile of a module's routes file followed by yaml.Unmarshal
ModuleFile(routesPath) ==
    CASE routesPath = "m/conf/routes.yml" ->
            << RouteEntry(GET, <<"/", "o">>, A404),
               NilEntry,
               ImportEntry("off", <<"/", "f">>),
               ImportEntry("n", <<"/", "n">>),
               RouteEntry(POST, <<"/", "a", "/", ":", "x", "/", ":", "y">>, <<"C", ".", "M">>),
               RouteEntry(POST, <<"/", "o">>, <<":", "c", ".", "N">>) >>
      [] routesPath = "n/conf/routes.yml" ->
            << RouteEntry(HEAD, <<"/", "a", "/", ":", "y">>, <<"C", ".", "N">>) >>
      [] routesPath = "bad/conf/routes.yml" ->
            << RouteEntry(POST, <<"/", "o">>, <<"C", ".", "N">>),
               [path |-> <<"/", "c">>] >>

----------------------------------------------------------------------------
(* Inputs *)

\* the entries a routes document written to conf/routes.yml is made of
Entries ==
    { [method |-> GET, path |-> <<"/", "a", "/", ":", "x">>, action |-> <<"C", ".", "M">>,
       params |-> << <<"y">> >>],
      RouteEntry(STAR, <<"/", "a", "/", "b">>, <<"C", ".", "N">>),
      RouteEntry(<<"g", "e", "t">>, <<"/", ":", "c", "/", ":", "m">>,
                 <<":", "c", ".", ":", "m">>),
      RouteEntry(STAR, <<"a">>, <<"C", ".", "M">>),
      ImportEntry("m", <<"/", "p">>),
      ImportEntry("bad", <<>>),
      RouteEntry(<<"F", "O", "O">>, <<"/", "a">>, <<"C", ".", "M">>),
      RouteEntry(GET, <<"/", "z">>, <<"C", ".", "Z">>) }

Docs == UNION {[1..n -> Entries] : n \in 0..MaxDocLen}

\* the documents refreshed from while lookups run concurrently
ConcDocs == {doc \in Docs : Len(doc) <= MaxConcDocLen}

\* the entries of the documents handed to parseRoutes directly: those above,
\* an entry whose action has an empty second part and an entry with only a method
ParseEntries ==
    Entries \cup { RouteEntry(GET, <<"/", "c">>, <<"C", ".">>),
                   [method |-> GET] }

ParseDocs == UNION {[1..n -> ParseEntries] : n \in 0..MaxParseDocLen}

\* the joinedPath parseRoutes is called with
Prefixes == {<<>>, <<"/">>, <<"/", "p">>}

ReqMethods == {GET, HEAD, POST}

ReqPaths == {<<"/", "a", "/", "b">>, <<"/", "a", "/", "c">>, <<"/", "o">>,
             <<"/", "C", "/", "M">>, <<"/">>}

RevActions == {<<"C", ".", "M">>, <<"C", ".", "N">>, <<"a", ".", "b">>, A404, <<"C">>}

RevArgs == {<<>>, <<"x">> :> <<"b">>, (<<"x">> :> <<"c">>) @@ (<<"y">> :> <<"o">>)}

----------------------------------------------------------------------------
(* The parser.  A parse returns [routes, err, calls]: err is NoError (a nil *)
(* *Error), an *Error, or Panic when the goroutine panics; calls are the   *)
(* calls of getModuleRoutes the parse made, in order, each with the module *)
(* name and the joinedPath it was given.                                   *)

NoError == [Title |-> "", Description |-> "", Path |-> ""]

Panic == [Title |-> "panic", Description |-> "index out of range", Path |-> ""]

\* an error that is not an *Error (errors.New, fmt.Errorf)
PlainError(msg) == [Title |-> "error", Description |-> msg, Path |-> ""]

\* routeError wraps a plain error and returns an *Error as it is
routeError(e, routesPath) ==
    IF e.Title = "error"
    THEN [Title |-> "Route validation error", Description |-> e.Description,
          Path |-> routesPath]
    ELSE e

MissingOptionError(key) ==
    CASE key = "method" -> "Missing required route option \"method\""
      [] key = "path" -> "Missing required route option \"path\""
      [] key = "action" -> "Missing required route option \"action\""

routeMethodPattern == {GET, POST, <<"P", "U", "T">>, <<"D", "E", "L", "E", "T", "E">>,
                       <<"P", "A", "T", "C", "H">>,
                       <<"O", "P", "T", "I", "O", "N", "S">>, HEAD, <<"W", "S">>, STAR}

\* routeMethodPattern.MatchString: the pattern is anchored and case-insensitive
MatchString(method) == ToUpper(method) \in routeMethodPattern

requiredRouteOptions == <<"method", "path", "action">>

validateRoute(route) ==
    LET parts == Split(route.Action, ".")
    IN  IF route.Action = A404 THEN "none"
        ELSE IF Len(parts) # 2 THEN "Expected two parts (Controller.Action)"
        ELSE IF parts[1] = <<>> THEN "panic"
        ELSE IF parts[1][1] = ":" THEN "none"
        ELSE IF parts[2] = <<>> THEN "panic"
        ELSE IF parts[2][1] = ":" THEN "none"
        ELSE SetAction(parts[1], parts[2])

\* MissingOption that names the last required key the entry lacks
RECURSIVE MissingOptionLast(_, _)
MissingOptionLast(entry, keys) ==
    IF keys = <<>> THEN ""
    ELSE IF MissingOptionLast(entry, Tail(keys)) # "" THEN MissingOptionLast(entry, Tail(keys))
    ELSE IF ~Has(entry, Head(keys)) THEN Head(keys)
    ELSE ""

\* the first required key the entry lacks, "" when it has them all
RECURSIVE MissingOption(_, _)
MissingOption(entry, keys) ==
    IF keys = <<>> THEN ""
    ELSE IF ~Has(entry, Head(keys)) THEN Head(keys)
    ELSE MissingOption(entry, Tail(keys))

RECURSIVE parseEntries(_, _, _, _, _)

\* parseRoutesFile for a module's routes file
parseRoutesFile(routesPath, joinedPath, validate) ==
    parseEntries(routesPath, joinedPath, ModuleFile(routesPath), <<>>, validate)

getModuleRoutes(moduleName, joinedPath, validate) ==
    LET module == ModuleByName(moduleName)
    IN  IF ~module.found THEN [routes |-> <<>>, err |-> NoError, calls |-> <<>>]
        ELSE parseRoutesFile(ModuleRoutesPath(module.Path), joinedPath, validate)

\* the loop of parseRoutes over the entries still to read, with the routes
\* collected so far and the current value of the local joinedPath
parseEntries(routesPath, joinedPath, entries, routes, validate) ==
    IF entries = <<>> THEN [routes |-> routes, err |-> NoError, calls |-> <<>>]
    ELSE
    LET route == Head(entries) IN
    IF IsNil(route) THEN parseEntries(routesPath, joinedPath, Tail(entries), routes, validate)
    ELSE IF Has(route, "import") THEN
        LET prefix == IF Has(route, "prefix") THEN route.prefix ELSE <<>>
            joined == IF HasSuffix(joinedPath, <<"/">>) /\ HasPrefix(prefix, <<"/">>)
                      THEN SubSeq(joinedPath, 1, Len(joinedPath) - 1)
                      ELSE joinedPath
            modulePrefix == Concat(<<joined, prefix>>)
            got == getModuleRoutes(route.import, modulePrefix, validate)
            made == <<[moduleName |-> route.import, joinedPath |-> modulePrefix]>> \o got.calls
            rest == parseEntries(routesPath, joined, Tail(entries), routes \o got.routes,
                                 validate)
        IN  IF got.err # NoError
            THEN [routes |-> <<>>, err |-> routeError(got.err, routesPath), calls |-> made]
            ELSE [rest EXCEPT !.calls = made \o @]
    ELSE
        LET missing == MissingOption(route, requiredRouteOptions) IN
        IF missing # ""
        THEN [routes |-> <<>>,
              err |-> routeError(PlainError(MissingOptionError(missing)), routesPath),
              calls |-> <<>>]
        ELSE IF ~MatchString(route.method)
        THEN [routes |-> <<>>,
              err |-> routeError(PlainError("Unknown route method"), routesPath),
              calls |-> <<>>]
        ELSE
        LET params == IF Has(route, "params") THEN route.params ELSE <<>>
            r == NewRoute(route.method, route.path, route.action, routesPath, params)
            verr == IF validate THEN validateRoute(r) ELSE "none"
        IN  IF verr = "panic" THEN [routes |-> <<>>, err |-> Panic, calls |-> <<>>]
            ELSE IF verr # "none"
            THEN [routes |-> <<>>, err |-> routeError(PlainError(verr), routesPath),
                  calls |-> <<>>]
            ELSE parseEntries(routesPath, joinedPath, Tail(entries), Append(routes, r), validate)

\* parseRoutes that puts the routes of an imported module in front
RECURSIVE parseEntriesImportsFirst(_, _, _, _, _)
parseEntriesImportsFirst(routesPath, joinedPath, entries, routes, validate) ==
    IF entries = <<>> THEN [routes |-> routes, err |-> NoError, calls |-> <<>>]
    ELSE
    LET route == Head(entries) IN
    IF IsNil(route)
    THEN parseEntriesImportsFirst(routesPath, joinedPath, Tail(entries), routes, validate)
    ELSE IF Has(route, "import") THEN
        LET got == getModuleRoutes(route.import, joinedPath, validate)
        IN  IF got.err # NoError THEN [routes |-> <<>>, err |-> got.err, calls |-> <<>>]
            ELSE parseEntriesImportsFirst(routesPath, joinedPath, Tail(entries),
                                          got.routes \o routes, validate)
    ELSE
        LET one == parseEntries(routesPath, joinedPath, <<route>>, <<>>, validate)
        IN  IF one.err # NoError THEN one
            ELSE parseEntriesImportsFirst(routesPath, joinedPath, Tail(entries),
                                          routes \o one.routes, validate)

parseRoutesImportsFirst(routesPath, joinedPath, content, validate) ==
    parseEntriesImportsFirst(routesPath, joinedPath, content, <<>>, validate)

\* parseRoutes: content is the unmarshalled document
parseRoutes(routesPath, joinedPath, content, validate) ==
    parseEntries(routesPath, joinedPath, content, <<>>, validate)

----------------------------------------------------------------------------
(* pathtree.  A node is named by the edges leading to it from the root: a  *)
(* literal edge by its path element, the wildcard edge by WildEdge.  The   *)
(* tree is the set of its nodes, the leaves set on them and the counter of *)
(* the leaves added.                                                       *)

WildEdge == <<":">>

\* pathtree.New
New == [leafs |-> 0, nodes |-> {<<>>}, leaves |-> {}]

NoLeaf == [order |-> 0]

\* splitPath: the elements between the slashes, without the empty first and last
splitPath(key) ==
    LET all == Split(key, "/")
        noFirst == IF all[1] = <<>> THEN Tail(all) ELSE all
    IN  IF noFirst[Len(noFirst)] = <<>> THEN SubSeq(noFirst, 1, Len(noFirst) - 1)
        ELSE noFirst

LeafAt(t, node, star) == {l \in t.leaves : l.node = node /\ l.star = star}

MkLeaf(node, star, order, wildcards, val) ==
    [node |-> node, star |-> star, order |-> order, Wildcards |-> wildcards, Value |-> val]

\* Node.add: returns the tree and the error ("" for nil)
RECURSIVE add(_, _, _, _, _, _)
add(t, node, order, elements, wildcards, val) ==
    IF elements = <<>> THEN
        IF LeafAt(t, node, FALSE) # {} THEN [tree |-> t, err |-> "duplicate path"]
        ELSE [tree |-> [t EXCEPT !.leaves = @ \cup {MkLeaf(node, FALSE, order, wildcards, val)}],
              err |-> ""]
    ELSE
    LET el == Head(elements) IN
    IF el = <<>> THEN [tree |-> t, err |-> "empty path elements are not allowed"]
    ELSE IF el[1] = ":" THEN
        add([t EXCEPT !.nodes = @ \cup {Append(node, WildEdge)}],
            Append(node, WildEdge), order, Tail(elements), Append(wildcards, Rest(el)), val)
    ELSE IF el[1] = "*" THEN
        IF LeafAt(t, node, TRUE) # {} THEN [tree |-> t, err |-> "duplicate path"]
        ELSE [tree |-> [t EXCEPT !.leaves =
                            @ \cup {MkLeaf(node, TRUE, order, Append(wildcards, Rest(el)), val)}],
              err |-> ""]
    ELSE
        add([t EXCEPT !.nodes = @ \cup {Append(node, el)}],
            Append(node, el), order, Tail(elements), wildcards, val)

\* Node.Add
Add(t, key, val) ==
    IF key = <<>> \/ key[1] # "/" THEN [tree |-> t, err |-> "Path must begin with /"]
    ELSE add([t EXCEPT !.leafs = @ + 1], <<>>, t.leafs + 1, splitPath(key), <<>>, val)

\* the better of two candidate leaves: the one added first
Earlier(leaf, cand) ==
    IF cand.leaf.order # 0 /\ (leaf.leaf.order = 0 \/ leaf.leaf.order > cand.leaf.order)
    THEN cand ELSE leaf

\* Node.find: returns the leaf (NoLeaf for nil) and the expansions
RECURSIVE find(_, _, _, _)
find(t, node, elements, exp) ==
    IF elements = <<>> THEN
        LET here == LeafAt(t, node, FALSE)
        IN  [leaf |-> IF here = {} THEN NoLeaf ELSE CHOOSE l \in here : TRUE,
             expansions |-> exp]
    ELSE
    LET el == Head(elements)
        stars == LeafAt(t, node, TRUE)
        starExpansion == Join(elements, "/")
        none == [leaf |-> NoLeaf, expansions |-> <<>>]
        byEdge == IF Append(node, el) \in t.nodes /\ el # WildEdge
                  THEN find(t, Append(node, el), Tail(elements), exp)
                  ELSE none
        byWildcard == IF Append(node, WildEdge) \in t.nodes
                      THEN Earlier(byEdge, find(t, Append(node, WildEdge), Tail(elements),
                                                Append(exp, el)))
                      ELSE byEdge
    IN  IF stars # {}
        THEN Earlier(byWildcard, [leaf |-> CHOOSE l \in stars : TRUE,
                                  expansions |-> Append(exp, starExpansion)])
        ELSE byWildcard

\* Node.Find
Find(t, key) ==
    IF key = <<>> \/ key[1] # "/" THEN [leaf |-> NoLeaf, expansions |-> <<>>]
    ELSE find(t, <<>>, splitPath(key), <<>>)

----------------------------------------------------------------------------
(* Router *)

\* NewRouter
NewRouter == [Routes |-> <<>>, Tree |-> New]

\* indices of the expansions bound to a wildcard name; the last one stays
Bound(wildcards, name) == {i \in 1..Len(wildcards) : wildcards[i] = name}

Last(S) == CHOOSE i \in S : \A j \in S : j <= i

\* the url.Values built from the expansions (the empty map when there are none)
RouteParams(leaf, expansions) ==
    LET n == Len(expansions)
        names == {leaf.Wildcards[i] : i \in 1..n}
    IN  [name \in names |-> <<expansions[Last(Bound(SubSeq(leaf.Wildcards, 1, n), name))]>>]

NilMatch == [kind |-> "nil"]

notFound == [kind |-> "match", Action |-> A404, ControllerName |-> <<>>, MethodName |-> <<>>,
             FixedParams |-> <<>>, Params |-> <<>>]

PanicMatch == [kind |-> "panic"]

\* a controller or method name with its placeholder replaced; Unbound when
\* indexing panics (an empty name, or no captured parameter of that name)
Unbound == <<"panic">>

Resolve(name, params) ==
    IF name = <<>> THEN Unbound
    ELSE IF name[1] # ":" THEN name
    ELSE IF Rest(name) \in DOMAIN params THEN params[Rest(name)][1]
    ELSE Unbound

\* Route that answers an explicit 404 route like no route at all
RouteHides404(tree, method, path) ==
    LET found == Find(tree, treePath(method, path)) IN
    IF found.leaf.order = 0 \/ found.leaf.Value.Action = A404 THEN NilMatch
    ELSE
    LET route == found.leaf.Value
        params == RouteParams(found.leaf, found.expansions)
        controllerName == Resolve(route.ControllerName, params)
        methodName == Resolve(route.MethodName, params)
    IN  IF controllerName = Unbound \/ methodName = Unbound THEN PanicMatch
        ELSE [kind |-> "match", Action |-> <<>>, ControllerName |-> controllerName,
              MethodName |-> methodName, FixedParams |-> route.FixedParams,
              Params |-> params]

\* Router.Route
Route(tree, method, path) ==
    LET found == Find(tree, treePath(method, path)) IN
    IF found.leaf.order = 0 THEN NilMatch
    ELSE
    LET route == found.leaf.Value
        params == RouteParams(found.leaf, found.expansions)
        controllerName == Resolve(route.ControllerName, params)
        methodName == Resolve(route.MethodName, params)
    IN  IF route.Action = A404 THEN notFound
        ELSE IF controllerName = Unbound \/ methodName = Unbound THEN PanicMatch
        ELSE [kind |-> "match", Action |-> <<>>, ControllerName |-> controllerName,
              MethodName |-> methodName, FixedParams |-> route.FixedParams,
              Params |-> params]

\* addRoute without the HEAD path of a GET route
addRouteNoHead(tree, route) == Add(tree, route.TreePath, route)

\* one iteration of the loop of updateTree: the route added under its tree
\* path and, for a GET route, under the HEAD path too
addRoute(tree, route) ==
    LET first == Add(tree, route.TreePath, route)
    IN  IF first.err = "" /\ route.Method = GET
        THEN Add(first.tree, treePath(HEAD, route.Path), route)
        ELSE first

\* addRoutes that leaves out a route the tree does not take and goes on
RECURSIVE addRoutesSkipsConflicts(_, _)
addRoutesSkipsConflicts(tree, routes) ==
    IF routes = <<>> THEN [tree |-> tree, err |-> NoError]
    ELSE IF addRoute(tree, Head(routes)).err # ""
    THEN addRoutesSkipsConflicts(tree, Tail(routes))
    ELSE addRoutesSkipsConflicts(addRoute(tree, Head(routes)).tree, Tail(routes))

\* the loop of updateTree over the routes still to add
RECURSIVE addRoutes(_, _)
addRoutes(tree, routes) ==
    IF routes = <<>> THEN [tree |-> tree, err |-> NoError]
    ELSE
    LET route == Head(routes)
        added == addRoute(tree, route)
    IN  IF added.err # ""
        THEN [tree |-> added.tree,
              err |-> routeError(PlainError(added.err), route.routesPath)]
        ELSE addRoutes(added.tree, Tail(routes))

\* Router.updateTree
updateTree(routes) == addRoutes(New, routes)

\* parseRoutesFile(router.path, "", true) for each content of the routes file,
\* and updateTree on what it returned: tables, so that each document is parsed
\* and built once (@@ makes the table an explicit function)
parsedRoot == [doc \in Docs |-> parseRoutes(RootPath, <<>>, doc, TRUE)] @@ <<>>

builtRoot == [doc \in Docs |-> updateTree(parsedRoot[doc].routes)] @@ <<>>

\* Refresh with the tree rebuilt whatever the parse returned
RefreshRebuildsAlways(router, doc) ==
    LET parsed == parsedRoot[doc]
        built == builtRoot[doc]
    IN  IF parsed.err = Panic
        THEN [Routes |-> router.Routes, Tree |-> router.Tree, err |-> Panic]
        ELSE [Routes |-> parsed.routes, Tree |-> built.tree,
              err |-> IF parsed.err # NoError THEN parsed.err ELSE built.err]

\* Router.Refresh on a router, with doc in the routes file: the router after
\* the call and what the call returned
Refresh(router, doc) ==
    LET parsed == parsedRoot[doc] IN
    IF parsed.err = Panic THEN [Routes |-> router.Routes, Tree |-> router.Tree, err |-> Panic]
    ELSE IF parsed.err # NoError
    THEN [Routes |-> parsed.routes, Tree |-> router.Tree, err |-> parsed.err]
    ELSE LET built == builtRoot[doc]
         IN  [Routes |-> parsed.routes, Tree |-> built.tree, err |-> built.err]

----------------------------------------------------------------------------
(* Reverse routing.  An argument map is a function from names to values.   *)

\* byte order of the characters the model uses
CharCode(c) ==
    CASE c = "*" -> 42 [] c = "." -> 46 [] c = "/" -> 47 [] c = "4" -> 52 [] c = "0" -> 48
      [] c = ":" -> 58 [] c = "<" -> 60 [] c = ">" -> 62
      [] c = "A" -> 65 [] c = "C" -> 67 [] c = "D" -> 68 [] c = "E" -> 69 [] c = "G" -> 71
      [] c = "H" -> 72 [] c = "M" -> 77 [] c = "N" -> 78 [] c = "O" -> 79 [] c = "T" -> 84
      [] c = "Z" -> 90
      [] c = "a" -> 97 [] c = "b" -> 98 [] c = "c" -> 99 [] c = "i" -> 105
      [] c = "l" -> 108 [] c = "m" -> 109 [] c = "n" -> 110 [] c = "o" -> 111
      [] c = "x" -> 120 [] c = "y" -> 121 [] c = "z" -> 122
      [] OTHER -> 63

RECURSIVE StrLess(_, _)
StrLess(a, b) ==
    IF b = <<>> THEN FALSE
    ELSE IF a = <<>> THEN TRUE
    ELSE IF CharCode(Head(a)) # CharCode(Head(b)) THEN CharCode(Head(a)) < CharCode(Head(b))
    ELSE StrLess(Tail(a), Tail(b))

\* the keys of a map in sorted order
RECURSIVE SortedKeys(_)
SortedKeys(keys) ==
    IF keys = {} THEN <<>>
    ELSE LET k == CHOOSE x \in keys : \A y \in keys : y = x \/ StrLess(x, y)
         IN  <<k>> \o SortedKeys(keys \ {k})

\* url.QueryEscape of one character
EscapeChar(c) ==
    CASE c = "/" -> <<"%", "2", "F">>
      [] c = ":" -> <<"%", "3", "A">>
      [] c = "<" -> <<"%", "3", "C">>
      [] c = ">" -> <<"%", "3", "E">>
      [] c = "*" -> <<"%", "2", "A">>
      [] OTHER -> <<c>>

QueryEscape(s) == Concat([i \in 1..Len(s) |-> EscapeChar(s[i])])

\* url.Values.Encode: key=value pairs in key order, joined by &
Encode(values) ==
    LET keys == SortedKeys(DOMAIN values)
    IN  Join([i \in 1..Len(keys) |->
                 QueryEscape(keys[i]) \o <<"=">> \o QueryEscape(values[keys[i]])], "&")

\* the argument map with key bound to val
SetArg(args, key, val) == [k \in DOMAIN args \cup {key} |-> IF k = key THEN val ELSE args[k]]

\* delete(args, key)
DeleteArg(args, key) == [k \in DOMAIN args \ {key} |-> args[k]]

NilValue == <<"<", "n", "i", "l", ">">>

\* substitute that leaves a :name element without an argument as it is
RECURSIVE substituteSkipsMissing(_, _, _)
substituteSkipsMissing(pathElements, i, argValues) ==
    IF i > Len(pathElements) THEN [pathElements |-> pathElements, argValues |-> argValues]
    ELSE
    LET el == pathElements[i] IN
    IF el = <<>> \/ el[1] # ":" \/ Rest(el) \notin DOMAIN argValues
    THEN substituteSkipsMissing(pathElements, i + 1, argValues)
    ELSE substituteSkipsMissing([pathElements EXCEPT ![i] = argValues[Rest(el)]], i + 1,
                                DeleteArg(argValues, Rest(el)))

\* substitute that keeps the arguments it put into the path
RECURSIVE substituteKeepsArgs(_, _, _)
substituteKeepsArgs(pathElements, i, argValues) ==
    IF i > Len(pathElements) THEN [pathElements |-> pathElements, argValues |-> argValues]
    ELSE
    LET el == pathElements[i] IN
    IF el = <<>> \/ el[1] # ":" THEN substituteKeepsArgs(pathElements, i + 1, argValues)
    ELSE LET val == IF Rest(el) \in DOMAIN argValues THEN argValues[Rest(el)] ELSE NilValue
         IN  substituteKeepsArgs([pathElements EXCEPT ![i] = val], i + 1, argValues)

\* the loop over pathElements: the elements with the :name ones replaced, and
\* the arguments left
RECURSIVE substitute(_, _, _)
substitute(pathElements, i, argValues) ==
    IF i > Len(pathElements) THEN [pathElements |-> pathElements, argValues |-> argValues]
    ELSE
    LET el == pathElements[i] IN
    IF el = <<>> \/ el[1] # ":" THEN substitute(pathElements, i + 1, argValues)
    ELSE LET val == IF Rest(el) \in DOMAIN argValues THEN argValues[Rest(el)] ELSE NilValue
         IN  substitute([pathElements EXCEPT ![i] = val], i + 1, DeleteArg(argValues, Rest(el)))

NilAction == [kind |-> "nil"]

\* reverseWith that reports the declared method of a * route
reverseWithDeclaredMethod(route, action, controllerName, methodName, argValues) ==
    LET bound1 == IF route.ControllerName[1] = ":"
                  THEN SetArg(argValues, Rest(route.ControllerName), controllerName)
                  ELSE argValues
        bound2 == IF route.MethodName[1] = ":"
                  THEN SetArg(bound1, Rest(route.MethodName), methodName)
                  ELSE bound1
        done == substitute(Split(route.Path, "/"), 1, bound2)
        joined == Join(done.pathElements, "/")
        url == IF DOMAIN done.argValues # {}
               THEN joined \o <<"?">> \o Encode(done.argValues)
               ELSE joined
    IN  [kind |-> "action", Url |-> url, Method |-> route.Method, Star |-> FALSE,
         Action |-> action, Args |-> done.argValues, Host |-> "TODO"]

\* the ActionDefinition built from the route Reverse selected
reverseWith(route, action, controllerName, methodName, argValues) ==
    LET bound1 == IF route.ControllerName[1] = ":"
                  THEN SetArg(argValues, Rest(route.ControllerName), controllerName)
                  ELSE argValues
        bound2 == IF route.MethodName[1] = ":"
                  THEN SetArg(bound1, Rest(route.MethodName), methodName)
                  ELSE bound1
        done == substitute(Split(route.Path, "/"), 1, bound2)
        joined == Join(done.pathElements, "/")
        url == IF DOMAIN done.argValues # {}
               THEN joined \o <<"?">> \o Encode(done.argValues)
               ELSE joined
    IN  [kind |-> "action", Url |-> url,
         Method |-> IF route.Method = STAR THEN GET ELSE route.Method,
         Star |-> route.Method = STAR,
         Action |-> action, Args |-> done.argValues, Host |-> "TODO"]

\* whether the loop of Reverse skips the route
skips(route, controllerName, methodName) ==
    \/ route.ControllerName = <<>> \/ route.MethodName = <<>>
    \/ route.ControllerName[1] # ":" /\ route.ControllerName # controllerName
    \/ route.MethodName[1] # ":" /\ route.MethodName # methodName

\* scan in which a later matching route replaces an earlier one
RECURSIVE scanLastWins(_, _, _, _, _)
scanLastWins(routes, action, controllerName, methodName, argValues) ==
    IF routes = <<>> THEN NilAction
    ELSE LET later == scanLastWins(Tail(routes), action, controllerName, methodName,
                                   argValues)
         IN  IF later.kind = "action" \/ skips(Head(routes), controllerName, methodName)
             THEN later
             ELSE reverseWith(Head(routes), action, controllerName, methodName, argValues)

\* the loop of Reverse over the routes still to scan
RECURSIVE scan(_, _, _, _, _)
scan(routes, action, controllerName, methodName, argValues) ==
    IF routes = <<>> THEN NilAction
    ELSE IF skips(Head(routes), controllerName, methodName)
    THEN scan(Tail(routes), action, controllerName, methodName, argValues)
    ELSE reverseWith(Head(routes), action, controllerName, methodName, argValues)

\* Router.Reverse
Reverse(routes, action, argValues) ==
    LET actionSplit == Split(action, ".")
    IN  IF Len(actionSplit) # 2 THEN NilAction
        ELSE scan(routes, action, actionSplit[1], actionSplit[2], argValues)

----------------------------------------------------------------------------
(* The state machine *)

NoOut == [op |-> "none"]

Router == [Routes |-> Routes, Tree |-> Tree]

Init ==
    /\ Routes = NewRouter.Routes
    /\ Tree = NewRouter.Tree
    /\ err = NoError
    /\ pc = "idle"
    /\ todo = <<>>
    /\ old = NewRouter
    /\ out = NoOut

\* a call of Router.Refresh, run to its end
RefreshCall ==
    \E doc \in Docs :
        LET r == Refresh(Router, doc) IN
        /\ pc = "idle"
        /\ Routes' = r.Routes
        /\ Tree' = r.Tree
        /\ err' = r.err
        /\ out' = [op |-> "Refresh"]
        /\ UNCHANGED <<pc, todo, old>>

\* a call of Router.Route
RouteCall ==
    \E m \in ReqMethods, p \in ReqPaths :
        /\ out' = [op |-> "Route", method |-> m, path |-> p, during |-> pc,
                   res |-> Route(Tree, m, p)]
        /\ UNCHANGED <<Routes, Tree, err, pc, todo, old>>

\* a call of Router.Reverse
ReverseCall ==
    \E a \in RevActions, args \in RevArgs :
        /\ out' = [op |-> "Reverse", action |-> a, args |-> args, during |-> pc,
                   res |-> Reverse(Routes, a, args)]
        /\ UNCHANGED <<Routes, Tree, err, pc, todo, old>>

Next == RefreshCall

\* the router over its life: created, then refreshed again and again
Spec == Init /\ [][Next]_vars

\* the refresh at application start, before any request is served
StartRefresh == out.op = "none" /\ RefreshCall

NextLookup == StartRefresh \/ RouteCall \/ ReverseCall

\* the router refreshed at application start and then serving requests
SpecLookup == Init /\ [][NextLookup]_vars

\* Refresh, first statement: the routes file is parsed and the result assigned
BeginRefresh ==
    \E doc \in ConcDocs :
        LET parsed == parsedRoot[doc] IN
        /\ pc = "idle"
        /\ old' = Router
        /\ out' = [op |-> "Refresh"]
        /\ Routes' = IF parsed.err = Panic THEN Routes ELSE parsed.routes
        /\ err' = IF parsed.err # NoError THEN parsed.err ELSE err
        /\ pc' = IF parsed.err # NoError THEN "idle" ELSE "reset"
        /\ UNCHANGED <<Tree, todo>>

\* updateTree, first statement: the tree is replaced by an empty one
ResetTree ==
    /\ pc = "reset"
    /\ Tree' = New
    /\ todo' = Routes
    /\ pc' = "build"
    /\ UNCHANGED <<Routes, err, old, out>>

\* updateTree, one iteration of its loop, or its return when the loop is over
AddRoute ==
    /\ pc = "build"
    /\ IF todo = <<>>
       THEN /\ err' = NoError
            /\ pc' = "idle"
            /\ UNCHANGED <<Tree, todo>>
       ELSE LET added == addRoute(Tree, Head(todo)) IN
            /\ Tree' = added.tree
            /\ IF added.err # ""
               THEN /\ err' = routeError(PlainError(added.err), Head(todo).routesPath)
                    /\ pc' = "idle"
                    /\ todo' = <<>>
               ELSE /\ todo' = Tail(todo)
                    /\ UNCHANGED <<err, pc>>
    /\ UNCHANGED <<Routes, old, out>>

\* a call of parseRoutes on a document, with a joinedPath and with or without
\* validation
ParseCall ==
    \E doc \in ParseDocs, joinedPath \in Prefixes, validate \in BOOLEAN :
        /\ out.op = "none"
        /\ out' = [op |-> "parseRoutes", joinedPath |-> joinedPath, doc |-> doc,
                   validate |-> validate,
                   res |-> parseRoutes(RootPath, joinedPath, doc, validate)]
        /\ UNCHANGED <<Routes, Tree, err, pc, todo, old>>

NextParse == ParseCall

\* parseRoutes as a function of its arguments
SpecParse == Init /\ [][NextParse]_vars

NextConc == BeginRefresh \/ ResetTree \/ AddRoute \/ RouteCall \/ ReverseCall

\* Refresh statement by statement, with lookups running between its statements
SpecConc == Init /\ [][NextConc]_vars

----------------------------------------------------------------------------
(* Properties *)

\* the last Refresh returned no error
Loaded == err = NoError

BuildErrors == {"duplicate path", "empty path elements are not allowed",
                "Path must begin with /"}

\* the error of a Refresh that failed while parsing or validating
ParseFailed(e) == e # NoError /\ e # Panic /\ e.Description \notin BuildErrors

SameRouting(t1, t2) ==
    \A m \in ReqMethods, p \in ReqPaths : Route(t1, m, p) = Route(t2, m, p)

\* C1: a Refresh of a Loaded router that fails on an entry that does not parse
\* or validate (in the root document or in an imported one) returns an error
\* and leaves the outcome of Route the same for every method and path.
C1_FailedParseKeepsRouting ==
    [][(Loaded /\ out'.op = "Refresh" /\ ParseFailed(err')) => SameRouting(Tree, Tree')]_vars

\* a Loaded router that routes some request was refreshed from a document with
\* an entry that does not parse, and still routes the request
C1_Witness ==
    /\ out.op = "Refresh"
    /\ ParseFailed(err)
    /\ \E m \in ReqMethods, p \in ReqPaths : Route(Tree, m, p).kind = "match"

\* C2: after a Refresh that returns an error, the route list and the tree are
\* what they were before the call.
C2_FailedRefreshKeepsState ==
    [][(out'.op = "Refresh" /\ err' # NoError) => (Routes' = Routes /\ Tree' = Tree)]_vars

\* C3: a lookup that runs while a Refresh is in progress returns what the
\* complete previous generation or the complete new generation returns.
C3_LookupSeesOneGeneration ==
    (out.op = "Route" /\ out.during # "idle") =>
        out.res \in {Route(old.Tree, out.method, out.path),
                     Route(updateTree(Routes).tree, out.method, out.path)}

\* the route the tree selects for a request is routes[i]
Selects(tree, routes, i, m, p) ==
    LET found == Find(tree, treePath(m, p))
    IN  found.leaf.order # 0 /\ found.leaf.Value = routes[i]

HeadAsGet(tree, routes) ==
    \A i \in 1..Len(routes) : routes[i].Method = GET =>
        \A p \in ReqPaths :
            /\ Selects(tree, routes, i, HEAD, p) <=> Selects(tree, routes, i, GET, p)
            /\ Selects(tree, routes, i, GET, p) => Route(tree, HEAD, p) = Route(tree, GET, p)

NoHeadRoute(routes) == \A i \in 1..Len(routes) : routes[i].Method # HEAD

\* C4 as claimed: in a Loaded router, for every GET route and every path, the
\* HEAD lookup selects the route exactly when the GET lookup does, with the
\* same result.
C4_HeadAsGet_Original == Loaded => HeadAsGet(Tree, Routes)

\* C4: in a Loaded router with no route declared with method HEAD, for every
\* GET route and every path, the HEAD lookup selects the route exactly when the
\* GET lookup does, and both return the same controller, method, fixed
\* parameters and captured parameters.
C4_HeadAsGet == (Loaded /\ NoHeadRoute(Routes)) => HeadAsGet(Tree, Routes)

\* a HEAD request was routed to a GET route of a Loaded router that has no
\* HEAD route
C4_Witness ==
    /\ Loaded /\ NoHeadRoute(Routes)
    /\ out.op = "Route" /\ out.method = HEAD /\ out.res.kind = "match"
    /\ \E i \in 1..Len(Routes) :
          Routes[i].Method = GET /\ Selects(Tree, Routes, i, HEAD, out.path)

\* the names of the :name elements of a path
PathNames(path) ==
    LET els == Split(path, "/")
    IN  {Rest(els[i]) : i \in {j \in 1..Len(els) : els[j] # <<>> /\ els[j][1] = ":"}}

\* a route's controller and method each equal the target's or are a placeholder
MatchesAction(route, controllerName, methodName) ==
    /\ route.ControllerName # <<>> /\ route.MethodName # <<>>
    /\ route.ControllerName = controllerName \/ route.ControllerName[1] = ":"
    /\ route.MethodName = methodName \/ route.MethodName[1] = ":"

\* the positions of the routes that match the action, in a route list
Matching(routes, action) ==
    LET parts == Split(action, ".")
    IN  IF Len(parts) # 2 THEN {}
        ELSE {i \in 1..Len(routes) : MatchesAction(routes[i], parts[1], parts[2])}

First(S) == CHOOSE i \in S : \A j \in S : i <= j

\* the arguments with the placeholders of the route's action bound
BoundArgs(route, action, args) ==
    LET parts == Split(action, ".")
        a1 == IF route.ControllerName[1] = ":"
              THEN SetArg(args, Rest(route.ControllerName), parts[1]) ELSE args
    IN  IF route.MethodName[1] = ":" THEN SetArg(a1, Rest(route.MethodName), parts[2])
        ELSE a1

\* the path of a URL: what comes before the query string
UrlPath(url) == Split(url, "?")[1]

RoundTrip(tree, routes, action, args) ==
    LET d == Reverse(routes, action, args)
        route == routes[First(Matching(routes, action))]
        bound == BoundArgs(route, action, args)
        names == PathNames(route.Path)
        r == Route(tree, d.Method, UrlPath(d.Url))
    IN  (d.kind = "action" /\ names \subseteq DOMAIN bound) =>
            /\ r.kind = "match" /\ r.Action # A404
            /\ r.ControllerName \o <<".">> \o r.MethodName = action
            /\ r.Params = [n \in names |-> <<bound[n]>>]

\* C5: in a Loaded router, routing the method and URL path that Reverse
\* returns for an action and arguments (which supply every placeholder of the
\* path) gives the controller and method of the action, and as parameters the
\* arguments restricted to the names the path captures.
C5_ReverseThenRoute ==
    Loaded => \A a \in RevActions, args \in RevArgs : RoundTrip(Tree, Routes, a, args)

\* what identifies a route entry in the list: where it was read and what it says
EntryKey(routesPath, entry) ==
    [routesPath |-> routesPath, Method |-> ToUpper(entry.method), Path |-> entry.path,
     Action |-> entry.action]

RouteKey(route) ==
    [routesPath |-> route.routesPath, Method |-> route.Method, Path |-> route.Path,
     Action |-> route.Action]

\* the route entries of a document in reading order, each import entry replaced
\* on the spot by the entries of the module's document (nothing when the
\* module is not active)
RECURSIVE InOrder(_, _)
InOrder(routesPath, entries) ==
    IF entries = <<>> THEN <<>>
    ELSE LET e == Head(entries)
             here == IF IsNil(e) THEN <<>>
                     ELSE IF Has(e, "import")
                     THEN IF ModuleByName(e.import).found
                          THEN InOrder(ModuleRoutesPath(ModuleByName(e.import).Path),
                                       ModuleFile(ModuleRoutesPath(ModuleByName(e.import).Path)))
                          ELSE <<>>
                     ELSE <<EntryKey(routesPath, e)>>
         IN  here \o InOrder(routesPath, Tail(entries))

\* the documents whose parse succeeds with the given routes
ParsedFrom(routes) ==
    {doc \in Docs : parsedRoot[doc].err = NoError /\ parsedRoot[doc].routes = routes}

\* C6: the list a successful parse returns has the routes in reading order,
\* those of an imported module in the place of the import entry and in the
\* module's own order, at every nesting depth.
C6_ImportsInPlace ==
    \A doc \in ParsedFrom(Routes) :
        [i \in 1..Len(Routes) |-> RouteKey(Routes[i])] = InOrder(RootPath, doc)

\* the list holds a route of the root document followed by the routes of an
\* imported module, with those of the module it imports in between
C6_Witness ==
    /\ out.op = "Refresh" /\ ParsedFrom(Routes) # {}
    /\ \E i, j, k, l \in 1..Len(Routes) :
          /\ i < j /\ j < k /\ k < l
          /\ Routes[i].routesPath = RootPath
          /\ Routes[j].routesPath = "m/conf/routes.yml"
          /\ Routes[k].routesPath = "n/conf/routes.yml"
          /\ Routes[l].routesPath = "m/conf/routes.yml"

\* C7: every route of the list a parse returned, and so of a Loaded router,
\* has a path that starts with a slash.
C7_PathsStartWithSlash ==
    Loaded => \A i \in 1..Len(Routes) : HasPrefix(Routes[i].Path, <<"/">>)

\* a leaf's path matches the elements of a request key: element by element,
\* a wildcard edge matching any element, and a star leaf matching one or more
\* elements after its node
LeafMatches(leaf, elements) ==
    /\ IF leaf.star THEN Len(elements) > Len(leaf.node)
       ELSE Len(elements) = Len(leaf.node)
    /\ \A i \in 1..Len(leaf.node) :
          leaf.node[i] = WildEdge \/ leaf.node[i] = elements[i]

\* the leaves of the tree that match a request
MatchingLeaves(tree, method, path) ==
    {l \in tree.leaves : LeafMatches(l, splitPath(treePath(method, path)))}

\* the leaf the tree selects among those that match: the one added first
SelectedLeaf(tree, method, path) ==
    CHOOSE l \in MatchingLeaves(tree, method, path) :
        \A k \in MatchingLeaves(tree, method, path) : l.order <= k.order

\* C8: Route returns the explicit 404 exactly when the route it matched has the
\* action "404", and nil (not found), which differs from it, exactly when no
\* route of the tree matches the request; a request matched to another route
\* gets neither.
C8_Explicit404AndNotFound ==
    out.op = "Route" =>
        LET some == MatchingLeaves(Tree, out.method, out.path) # {}
            is404 == some /\ SelectedLeaf(Tree, out.method, out.path).Value.Action = A404
        IN  /\ out.res = notFound <=> is404
            /\ out.res = NilMatch <=> ~some
            /\ notFound # NilMatch

\* a request was answered with the explicit 404 of a route with action "404"
C8_Witness ==
    /\ out.op = "Route" /\ out.res = notFound
    /\ MatchingLeaves(Tree, out.method, out.path) # {}

\* C9: the result of Reverse has the method of the route it was built from and
\* no wildcard-origin flag, except for a route declared with method *: then
\* the method is GET and the flag is set.
C9_ReverseMethod ==
    (out.op = "Reverse" /\ out.res.kind = "action") =>
        LET route == Routes[First(Matching(Routes, out.action))]
        IN  IF route.Method = STAR THEN out.res.Method = GET /\ out.res.Star
            ELSE out.res.Method = route.Method /\ ~out.res.Star

\* Reverse built its result from a route declared with method *
C9_Witness ==
    /\ out.op = "Reverse" /\ out.res.kind = "action" /\ out.res.Star
    /\ Routes[First(Matching(Routes, out.action))].Method = STAR

\* C10: Reverse builds its result from the first route of the list whose
\* controller and method each equal the target's or are a placeholder; it
\* returns nil when there is none, or when the action has not two parts.
C10_FirstMatchWins ==
    out.op = "Reverse" =>
        LET parts == Split(out.action, ".")
            matching == Matching(Routes, out.action)
        IN  IF matching = {} THEN out.res = NilAction
            ELSE out.res = reverseWith(Routes[First(matching)], out.action,
                                       parts[1], parts[2], out.args)

\* Reverse built its result from the first of two routes that match the action
C10_Witness ==
    /\ out.op = "Reverse" /\ out.res.kind = "action"
    /\ Cardinality(Matching(Routes, out.action)) >= 2
    /\ \E i \in 1..Len(Routes) : Routes[i].ControllerName = <<>>

\* the route Reverse builds its result from
Selected(routes, action) == routes[First(Matching(routes, action))]

\* the elements of the selected route's path, each :name element replaced by
\* its argument, or by the placeholder value when it has none
Substituted(route, bound) ==
    LET els == Split(route.Path, "/")
    IN  [i \in 1..Len(els) |->
            IF els[i] # <<>> /\ els[i][1] = ":"
            THEN IF Rest(els[i]) \in DOMAIN bound THEN bound[Rest(els[i])] ELSE NilValue
            ELSE els[i]]

QueryPairs(url) ==
    LET parts == Split(url, "?")
    IN  IF Len(parts) < 2 THEN <<>>
        ELSE LET pairs == Split(parts[2], "&")
             IN  [i \in 1..Len(pairs) |-> Split(pairs[i], "=")]

\* C12: in a result of Reverse, an argument (supplied, or bound from the
\* action) whose name is a :name element of the selected route's path is in
\* neither the final argument map nor the query string; every other argument
\* is in the final map with its value and exactly once in the query string,
\* whose keys are in sorted order.
C12_ArgsUsedOnce ==
    (out.op = "Reverse" /\ out.res.kind = "action") =>
        LET route == Selected(Routes, out.action)
            bound == BoundArgs(route, out.action, out.args)
            left == DOMAIN bound \ PathNames(route.Path)
            pairs == QueryPairs(out.res.Url)
        IN  /\ out.res.Args = [n \in left |-> bound[n]]
            /\ {pairs[i][1] : i \in 1..Len(pairs)} = {QueryEscape(n) : n \in left}
            /\ \A i \in 1..Len(pairs) :
                  /\ Len(pairs[i]) = 2
                  /\ \E n \in left : pairs[i] = <<QueryEscape(n), QueryEscape(bound[n])>>
            /\ \A i \in 1..Len(pairs) - 1 : StrLess(pairs[i][1], pairs[i + 1][1])

\* Reverse put one argument into the path and another into the query string
C12_Witness ==
    /\ out.op = "Reverse" /\ out.res.kind = "action"
    /\ LET route == Selected(Routes, out.action)
           bound == BoundArgs(route, out.action, out.args)
       IN  /\ PathNames(route.Path) \cap DOMAIN bound # {}
           /\ DOMAIN bound \ PathNames(route.Path) # {}
    /\ Len(QueryPairs(out.res.Url)) >= 1

\* the route entries a parse reads, in reading order, each with the file it
\* is in: an import entry of an active module stands for the module's entries
RECURSIVE FlatEntries(_, _)
FlatEntries(routesPath, entries) ==
    IF entries = <<>> THEN <<>>
    ELSE LET e == Head(entries)
             module == ModuleByName(e.import)
             here == IF IsNil(e) THEN <<>>
                     ELSE IF Has(e, "import")
                     THEN IF module.found
                          THEN FlatEntries(ModuleRoutesPath(module.Path),
                                           ModuleFile(ModuleRoutesPath(module.Path)))
                          ELSE <<>>
                     ELSE <<[routesPath |-> routesPath, entry |-> e]>>
         IN  here \o FlatEntries(routesPath, Tail(entries))

LacksKey(entry) == {"method", "path", "action"} \ DOMAIN entry # {}

\* the first of method, path, action that the entry lacks
FirstLacking(entry) ==
    IF ~Has(entry, "method") THEN "method"
    ELSE IF ~Has(entry, "path") THEN "path"
    ELSE "action"

\* an entry the parse accepts
Accepted(entry, validate) ==
    /\ ~LacksKey(entry)
    /\ MatchString(entry.method)
    /\ validate =>
          validateRoute(NewRoute(entry.method, entry.path, entry.action, "", <<>>)) = "none"

\* C13: a parse that comes to a route entry without one of the keys method,
\* path, action (every entry read before it being accepted) returns no routes
\* and the error that names the first key the entry lacks, in the order
\* method, path, action, with the file the entry is in.
C13_MissingKeyFails ==
    out.op = "parseRoutes" =>
        LET flat == FlatEntries(RootPath, out.doc)
            lacking == {i \in 1..Len(flat) : LacksKey(flat[i].entry)}
        IN  (lacking # {} /\ \A j \in 1..First(lacking) - 1 :
                                 Accepted(flat[j].entry, out.validate)) =>
                /\ out.res.routes = <<>>
                /\ out.res.err =
                      [Title |-> "Route validation error",
                       Description |-> MissingOptionError(FirstLacking(flat[First(lacking)].entry)),
                       Path |-> flat[First(lacking)].routesPath]

\* a parse read an accepted entry and then an entry that lacks two keys, and
\* returned no routes
C13_Witness ==
    /\ out.op = "parseRoutes" /\ out.res.routes = <<>> /\ out.res.err # NoError
    /\ LET flat == FlatEntries(RootPath, out.doc)
       IN  \E i \in 2..Len(flat) :
              /\ Cardinality({"method", "path", "action"} \ DOMAIN flat[i].entry) >= 2
              /\ \A j \in 1..i - 1 : Accepted(flat[j].entry, out.validate)

\* an action validation lets through: "404", two parts of which one is a
\* placeholder, or two literal parts that name a registered controller method
ActionOK(action) ==
    LET parts == Split(action, ".")
    IN  \/ action = A404
        \/ /\ Len(parts) = 2
           /\ \/ HasPrefix(parts[1], <<":">>)
              \/ HasPrefix(parts[2], <<":">>)
              \/ <<parts[1], parts[2]>> \in RegisteredActions

\* C17: a parse with validation does not crash; when it succeeds, every route
\* it returns has an action validation lets through, and when the document has
\* a route entry with another action it returns an error.
C17_ValidatedOrError ==
    (out.op = "parseRoutes" /\ out.validate) =>
        LET flat == FlatEntries(RootPath, out.doc)
        IN  /\ out.res.err # Panic
            /\ out.res.err = NoError =>
                  \A i \in 1..Len(out.res.routes) : ActionOK(out.res.routes[i].Action)
            /\ (\E i \in 1..Len(flat) :
                    ~LacksKey(flat[i].entry) /\ ~ActionOK(flat[i].entry.action)) =>
                  out.res.err # NoError

\* the prefix of an import: the enclosing prefix followed by the entry's own,
\* one slash dropped when the first ends and the second starts with a slash
JoinPrefix(P, q) ==
    IF HasSuffix(P, <<"/">>) /\ HasPrefix(q, <<"/">>)
    THEN SubSeq(P, 1, Len(P) - 1) \o q
    ELSE P \o q

EntryPrefix(e) == IF Has(e, "prefix") THEN e.prefix ELSE <<>>

\* the paths of the routes of a document in reading order: as written for the
\* entries of the document itself, with the accumulated prefix in front for
\* those obtained through an import
RECURSIVE PrefixedPaths(_, _, _)
PrefixedPaths(prefix, entries, imported) ==
    IF entries = <<>> THEN <<>>
    ELSE LET e == Head(entries)
             module == ModuleByName(e.import)
             here == IF IsNil(e) THEN <<>>
                     ELSE IF Has(e, "import")
                     THEN IF module.found
                          THEN PrefixedPaths(JoinPrefix(prefix, EntryPrefix(e)),
                                             ModuleFile(ModuleRoutesPath(module.Path)), TRUE)
                          ELSE <<>>
                     ELSE <<IF imported THEN prefix \o e.path ELSE e.path>>
         IN  here \o PrefixedPaths(prefix, Tail(entries), imported)

\* C18: in the list a successful parse returns, the path of every route
\* obtained through an import is the prefix its module document was parsed
\* with followed by the path written in the entry.
C18_ImportedRoutesPrefixed ==
    (out.op = "parseRoutes" /\ out.res.err = NoError) =>
        [i \in 1..Len(out.res.routes) |-> out.res.routes[i].Path]
            = PrefixedPaths(out.joinedPath, out.doc, FALSE)

\* the calls of getModuleRoutes a parse makes when every import is given the
\* prefix JoinPrefix of the enclosing prefix and its own
RECURSIVE ExpectedCalls(_, _)
ExpectedCalls(P, entries) ==
    IF entries = <<>> THEN <<>>
    ELSE LET e == Head(entries)
             module == ModuleByName(e.import)
             joined == JoinPrefix(P, EntryPrefix(e))
             here == IF IsNil(e) \/ ~Has(e, "import") THEN <<>>
                     ELSE <<[moduleName |-> e.import, joinedPath |-> joined]>> \o
                          (IF module.found
                           THEN ExpectedCalls(joined, ModuleFile(ModuleRoutesPath(module.Path)))
                           ELSE <<>>)
         IN  here \o ExpectedCalls(P, Tail(entries))

IsPrefixOf(a, b) == Len(a) <= Len(b) /\ a = SubSeq(b, 1, Len(a))

\* C19: the prefix every import entry hands to the nested parse is JoinPrefix
\* of the prefix its document was parsed with and the entry's own prefix,
\* whatever import entries precede it in the document.
C19_PrefixOfImport ==
    out.op = "parseRoutes" =>
        IsPrefixOf(out.res.calls, ExpectedCalls(out.joinedPath, out.doc))

\* C14: no request is served by a router whose refresh at application start
\* returned an error.
C14_FailedStartNeverServes ==
    out.op \in {"Route", "Reverse"} => Loaded

\* a tree key without the names of its wildcards
StructKey(key) ==
    LET els == splitPath(key)
    IN  [i \in 1..Len(els) |-> IF els[i][1] = ":" THEN WildEdge ELSE els[i]]

\* the tree keys of a route: its tree path and, for a GET route, the HEAD path
TreeKeys(route) ==
    {StructKey(route.TreePath)} \cup
        (IF route.Method = GET THEN {StructKey(treePath(HEAD, route.Path))} ELSE {})

\* the positions of the routes that have a tree key of an earlier route
Conflicting(routes) ==
    {j \in 1..Len(routes) :
        \E i \in 1..j - 1 : TreeKeys(routes[i]) \cap TreeKeys(routes[j]) # {}}

\* C15: when two routes of the parsed list have the same tree key, the HEAD
\* key of a GET route included, Refresh returns the build error with the file
\* of the first route whose key was taken already, and the router is not
\* Loaded.
C15_ConflictIsBuildError ==
    /\ Loaded => Conflicting(Routes) = {}
    /\ (out.op = "Refresh" /\ Conflicting(Routes) # {}) =>
          err = [Title |-> "Route validation error", Description |-> "duplicate path",
                 Path |-> Routes[First(Conflicting(Routes))].routesPath]

\* a Refresh failed on a GET route whose HEAD key an earlier route declared
\* with method HEAD had taken
C15_Witness ==
    /\ out.op = "Refresh" /\ err.Description = "duplicate path"
    /\ Conflicting(Routes) # {}
    /\ LET j == First(Conflicting(Routes))
       IN  /\ Routes[j].Method = GET
           /\ \E i \in 1..j - 1 :
                 /\ Routes[i].Method = HEAD
                 /\ TreeKeys(Routes[i]) \cap TreeKeys(Routes[j]) # {}

IsPlaceholder(name) == HasPrefix(name, <<":">>)

\* C16: a request matched to a route whose controller or method is a :name
\* placeholder gets a match with the captured path elements in their place;
\* when the path captures no parameter of that name, Route does not crash.
C16_PlaceholderResolved ==
    out.op = "Route" =>
        LET found == Find(Tree, treePath(out.method, out.path))
            route == found.leaf.Value
            params == RouteParams(found.leaf, found.expansions)
            captured(name) == IsPlaceholder(name) => Rest(name) \in DOMAIN params
            resolved(name) == IF IsPlaceholder(name) THEN params[Rest(name)][1] ELSE name
        IN  (/\ found.leaf.order # 0 /\ route.Action # A404
             /\ route.ControllerName # <<>> /\ route.MethodName # <<>>
             /\ IsPlaceholder(route.ControllerName) \/ IsPlaceholder(route.MethodName)) =>
                /\ out.res.kind # "panic"
                /\ (captured(route.ControllerName) /\ captured(route.MethodName)) =>
                      /\ out.res.kind = "match"
                      /\ out.res.ControllerName = resolved(route.ControllerName)
                      /\ out.res.MethodName = resolved(route.MethodName)

\* C20: when no Refresh is in progress, the tree holds every route of the list
\* under each of its tree keys, and every leaf of the tree holds a route of
\* the list.
C20_TreeIndexesRoutes ==
    pc = "idle" =>
        /\ \A i \in 1..Len(Routes) : \A key \in TreeKeys(Routes[i]) :
              \E l \in Tree.leaves : l.node = key /\ l.Value = Routes[i]
        /\ \A l \in Tree.leaves : \E i \in 1..Len(Routes) : l.Value = Routes[i]

====
